---- MODULE Spec2Model ----
(***************************************************************************)
(* The background executor of webgwas-backend (src/src/worker.rs) and the  *)
(* data it works on (src/src/models.rs): the work queue, the result        *)
(* registry, the cohort table, the local result files and the object       *)
(* store.  One executor thread (worker_loop) pops requests and runs        *)
(* handle_webgwas_request on each; HTTP handlers enqueue requests.         *)
(*                                                                         *)
(* Option<T> is modelled as a sequence of length 0 (None) or 1 (Some).     *)
(***************************************************************************)
EXTENDS Integers, Sequences, FiniteSets, TLC

\* ------------------------------------------------------------------ bounds
\* Number of requests the handlers accept in one behaviour.
MaxRequests == 2

RequestIds == 1..MaxRequests

\* ------------------------------------------------------------- Option<T>
None == << >>
Some(x) == << x >>
is_some(o) == Len(o) = 1
is_none(o) == Len(o) = 0
unwrap(o) == o[1]

\* ------------------------------------------------------- models.rs: nodes
Feature(code) == [kind |-> "Feature", code |-> code]
OperatorNode(op) == [kind |-> "Operator", op |-> op]
Constant(value) == [kind |-> "Constant", value |-> value]

OperatorTags ==
    {"Root", "Add", "Sub", "Mul", "Div", "And", "Or", "Not",
     "Gt", "Ge", "Lt", "Le", "Eq"}

\* A table in which every operator is binary and untyped.
OperatorsValue_Uniform(op) ==
    [id |-> 0, name |-> "op", arity |-> 2, input_type |-> "Any", output_type |-> "Any"]

\* Operators::value: the operator table.
OperatorsValue(op) ==
    CASE op = "Root" -> [id |-> 0,  name |-> "root", arity |-> 1, input_type |-> "Any",  output_type |-> "Any"]
      [] op = "Add"  -> [id |-> 1,  name |-> "add",  arity |-> 2, input_type |-> "Any",  output_type |-> "Real"]
      [] op = "Sub"  -> [id |-> 2,  name |-> "sub",  arity |-> 2, input_type |-> "Any",  output_type |-> "Real"]
      [] op = "Mul"  -> [id |-> 3,  name |-> "mul",  arity |-> 2, input_type |-> "Any",  output_type |-> "Real"]
      [] op = "Div"  -> [id |-> 4,  name |-> "div",  arity |-> 2, input_type |-> "Any",  output_type |-> "Real"]
      [] op = "And"  -> [id |-> 5,  name |-> "and",  arity |-> 2, input_type |-> "Bool", output_type |-> "Bool"]
      [] op = "Or"   -> [id |-> 6,  name |-> "or",   arity |-> 2, input_type |-> "Bool", output_type |-> "Bool"]
      [] op = "Not"  -> [id |-> 7,  name |-> "not",  arity |-> 1, input_type |-> "Bool", output_type |-> "Bool"]
      [] op = "Gt"   -> [id |-> 8,  name |-> "gt",   arity |-> 2, input_type |-> "Any",  output_type |-> "Bool"]
      [] op = "Ge"   -> [id |-> 9,  name |-> "ge",   arity |-> 2, input_type |-> "Any",  output_type |-> "Bool"]
      [] op = "Lt"   -> [id |-> 10, name |-> "lt",   arity |-> 2, input_type |-> "Any",  output_type |-> "Bool"]
      [] op = "Le"   -> [id |-> 11, name |-> "le",   arity |-> 2, input_type |-> "Any",  output_type |-> "Bool"]
      [] op = "Eq"   -> [id |-> 12, name |-> "eq",   arity |-> 2, input_type |-> "Any",  output_type |-> "Bool"]

\* ------------------------------------------------------ the cohort table
\* Cohort ids mounted at startup.  Cohort 1 has num_covar, cohort 2 was
\* stored without it (Cohort.num_covar is Option<i32> and CohortData::load
\* takes the Cohort as it is).
CohortIds == {1, 2}

\* The number of covariates of cohort 1.
NumCovar == 3

\* CohortData as worker.rs reads it: the cohort record, the ordered feature
\* codes and the number of rows of left_inverse (features + intercept).
CohortData(cid) ==
    [cohort |-> [id |-> Some(cid),
                 num_covar |-> IF cid = 1 THEN Some(NumCovar) ELSE None],
     feature_names |-> << "A", "B" >>,
     left_inverse_nrows |-> Len(<< "A", "B" >>) + 1]

\* The phenotype definitions handlers enqueue: a known single feature, an
\* unknown single feature, a single constant, a single operator, and a
\* reverse-Polish sequence.
Definitions ==
    { << Feature("A") >>,
      << Feature("Z") >>,
      << Constant(2) >>,
      << OperatorNode("Add") >>,
      << Feature("A"), Feature("B"), OperatorNode("Add") >> }

\* ------------------------------------------------------------ Result<T>
Ok(v) == [ok |-> TRUE, value |-> v]
Err(e) == [ok |-> FALSE, err |-> e]

\* ------------------------------- the validator's type check (not in src)
\* NodeType
NodeTypes == {"Bool", "Real", "Any"}

\* Feature { code, node_type, .. }: a feature with its type.
TypedFeature(code, node_type) ==
    [kind |-> "Feature", code |-> code, node_type |-> node_type]

\* Constant { value, node_type: NodeType::Real }
TypedConstant(value) ==
    [kind |-> "Constant", value |-> value, node_type |-> "Real"]

\* Any unifies with Bool and with Real; Bool and Real are incompatible.
Unifies(input_type, operand_type) ==
    \/ input_type = "Any"
    \/ operand_type = "Any"
    \/ input_type = operand_type

\* The walk over the sequence as a stack machine of types, from node k on.
\* An operator of arity n pops n operand types, each of which its input type
\* must unify with, and pushes its output type (Any: the operand's type).
\* `applied` lists the operator applications made, for the record.
RECURSIVE TypeCheckFrom(_, _, _, _)
TypeCheckFrom(nodes, k, stack, applied) ==
    IF k > Len(nodes)
    THEN IF Len(stack) = 1 /\ stack[1] \in {"Bool", "Real"}
         THEN Ok([node_type |-> stack[1], applied |-> applied])
         ELSE Err("leftover or underflowing stack")
    ELSE LET n == nodes[k] IN
         IF n.kind # "Operator"
         THEN TypeCheckFrom(nodes, k + 1, Append(stack, n.node_type), applied)
         ELSE LET operator == OperatorsValue(n.op)
                  depth == Len(stack)
              IN  IF depth < operator.arity
                  THEN Err("arity mismatch")
                  ELSE LET operands == SubSeq(stack, depth - operator.arity + 1, depth)
                           output == IF operator.output_type = "Any"
                                     THEN operands[1]
                                     ELSE operator.output_type
                       IN  IF \E j \in 1..Len(operands) :
                                 ~Unifies(operator.input_type, operands[j])
                           THEN Err("type mismatch")
                           ELSE TypeCheckFrom(
                                    nodes, k + 1,
                                    Append(SubSeq(stack, 1, depth - operator.arity), output),
                                    Append(applied, [op |-> n.op,
                                                     operands |-> operands,
                                                     output |-> output]))

type_check(nodes) == TypeCheckFrom(nodes, 1, << >>, << >>)

\* ------------------------------------------- igwas::Projection (not in src)
\* A coefficient is "1.0", "0.0", or "lsq" for a value the least-squares
\* solve produced.
ProjectionNew(feature_id, feature_coefficient) ==
    IF Len(feature_id) = Len(feature_coefficient)
    THEN Ok([feature_id |-> feature_id,
             feature_coefficient |-> feature_coefficient])
    ELSE Err("Feature ids and coefficients differ in length")

Contains(seq, x) == \E k \in 1..Len(seq) : seq[k] = x

IndexOf(seq, x) == CHOOSE k \in 1..Len(seq) : seq[k] = x

\* Projection::standardize: align to the full feature ordering, padding the
\* coefficients of the features the projection does not name with zeros.
Standardize(projection, feature_names) ==
    [feature_id |-> feature_names,
     feature_coefficient |->
        [k \in 1..Len(feature_names) |->
            IF Contains(projection.feature_id, feature_names[k])
            THEN projection.feature_coefficient[
                     IndexOf(projection.feature_id, feature_names[k])]
            ELSE "0.0"]]

\* --------------------- phenotype_definitions::apply_phenotype_definition
\* The reverse-Polish evaluation as a stack machine; only the depth of the
\* stack decides whether it succeeds.  Returns the final depth, or -1 when a
\* feature is unknown or an operator finds too few operands.
RECURSIVE StackDepth(_, _, _, _)
StackDepth(nodes, k, depth, feature_names) ==
    IF depth < 0 \/ k > Len(nodes) THEN depth
    ELSE LET n == nodes[k] IN
         CASE n.kind = "Feature" ->
                StackDepth(nodes, k + 1,
                           IF Contains(feature_names, n.code) THEN depth + 1 ELSE -1,
                           feature_names)
           [] n.kind = "Constant" ->
                StackDepth(nodes, k + 1, depth + 1, feature_names)
           [] n.kind = "Operator" ->
                StackDepth(nodes, k + 1,
                           IF depth >= OperatorsValue(n.op).arity
                           THEN depth - OperatorsValue(n.op).arity + 1 ELSE -1,
                           feature_names)

apply_phenotype_definition(phenotype_definition, feature_names) ==
    IF StackDepth(phenotype_definition, 1, 0, feature_names) = 1
    THEN Ok("phenotype")
    ELSE Err("Failed to evaluate the phenotype definition")

\* regression::regress_left_inverse_vec: left_inverse * phenotype, one
\* coefficient per row of left_inverse.
regress_left_inverse_vec(left_inverse_nrows) ==
    [k \in 1..left_inverse_nrows |-> "lsq"]

\* Col::truncate(n): the first n elements.
Truncate(col, n) == SubSeq(col, 1, n)

\* --------------------------------------------- worker.rs: compute_projection
\* A variant without the single-node branch: every definition is evaluated
\* and solved with left_inverse.
compute_projection_AlwaysSolves(phenotype_definition, cohort_info) ==
    LET phenotype ==
            apply_phenotype_definition(phenotype_definition,
                                       cohort_info.feature_names) IN
    IF ~phenotype.ok
    THEN Err("Failed to apply phenotype definition")
    ELSE LET full == regress_left_inverse_vec(cohort_info.left_inverse_nrows)
             beta == Truncate(full, Len(full) - 1)
         IN  ProjectionNew(cohort_info.feature_names, beta)

\* A variant whose single-feature branch returns the one-element projection
\* as created, without standardize.
compute_projection_Unstandardized(phenotype_definition, cohort_info) ==
    IF Len(phenotype_definition) = 1
    THEN LET node == phenotype_definition[1] IN
         CASE node.kind = "Feature" ->
                IF ~Contains(cohort_info.feature_names, node.code)
                THEN Err("Feature not found after standardization")
                ELSE ProjectionNew(<< node.code >>, << "1.0" >>)
           [] node.kind = "Operator" -> Err("Operator is not supported")
           [] node.kind = "Constant" -> Err("Constant is not supported")
    ELSE compute_projection_AlwaysSolves(phenotype_definition, cohort_info)

\* A variant whose single-feature branch does not check that the feature is
\* among the standardized feature ids.
compute_projection_Unchecked(phenotype_definition, cohort_info) ==
    IF Len(phenotype_definition) = 1
    THEN LET node == phenotype_definition[1] IN
         CASE node.kind = "Feature" ->
                LET created == ProjectionNew(<< node.code >>, << "1.0" >>) IN
                IF ~created.ok THEN created
                ELSE Ok(Standardize(created.value, cohort_info.feature_names))
           [] node.kind = "Operator" -> Err("Operator is not supported")
           [] node.kind = "Constant" -> Err("Constant is not supported")
    ELSE compute_projection_AlwaysSolves(phenotype_definition, cohort_info)

compute_projection(phenotype_definition, cohort_info) ==
    IF Len(phenotype_definition) = 1
    THEN LET node == phenotype_definition[1] IN
         CASE node.kind = "Feature" ->
                LET created == ProjectionNew(<< node.code >>, << "1.0" >>) IN
                IF ~created.ok THEN created
                ELSE LET projection ==
                             Standardize(created.value, cohort_info.feature_names) IN
                     IF ~Contains(projection.feature_id, node.code)
                     THEN Err("Feature not found after standardization")
                     ELSE Ok(projection)
           [] node.kind = "Operator" -> Err("Operator is not supported")
           [] node.kind = "Constant" -> Err("Constant is not supported")
    ELSE LET phenotype ==
                 apply_phenotype_definition(phenotype_definition,
                                            cohort_info.feature_names) IN
         IF ~phenotype.ok
         THEN Err("Failed to apply phenotype definition")
         ELSE LET full == regress_left_inverse_vec(cohort_info.left_inverse_nrows)
                  beta == Truncate(full, Len(full) - 1)
              IN  ProjectionNew(cohort_info.feature_names, beta)

\* ================================================================ state
VARIABLES
    dry_run,            \* settings.dry_run
    cohort_id_to_data,  \* AppState.cohort_id_to_data: cohort id -> CohortData
    queue,              \* AppState.queue: the pending requests
    results,            \* AppState.results: request id -> WebGWASResult
    handlers,           \* the HTTP handlers between accepting and enqueueing
    next_id,            \* the number of request ids handed out so far
    pc,                 \* the executor thread's position
    request,            \* the request handle_webgwas_request runs, or None
    cohort_info,        \* its clone of the cohort's data, or None
    projection,         \* its projection, or None
    url,                \* its presigned URL, or None
    files,              \* the files under {root_directory}/results
    s3_objects,         \* the keys stored in the bucket
    presigned,          \* the keys a presigned URL was minted for
    started,            \* the ids popped by worker_loop, in order
    returned,           \* the returns of handle_webgwas_request, in order
    \* the lock-level view of the same threads (LockSpec)
    lock_holder,        \* mutex -> the thread holding its guard, or None
    lpc,                \* the executor thread's position, lock by lock
    hpc,                \* each handler's position, lock by lock
    lqueue,             \* the number of requests in the queue
    \* compute_projection as a function of its arguments (ProjectionSpec)
    pf_definition,      \* the phenotype definition passed, or None
    pf_cohort,          \* the cohort data passed, or None
    pf_result,          \* the Result returned, or None before the call
    \* the validator's type check as a function (TypeCheckSpec)
    tc_nodes,           \* the node sequence checked
    tc_result           \* the Result returned, or None before the call

vars == << dry_run, cohort_id_to_data, queue, results, handlers, next_id,
           pc, request, cohort_info, projection, url, files, s3_objects,
           presigned, started, returned,
           lock_holder, lpc, hpc, lqueue,
           pf_definition, pf_cohort, pf_result,
           tc_nodes, tc_result >>

settings_vars == << dry_run, cohort_id_to_data >>
lock_vars == << lock_holder, lpc, hpc, lqueue >>
pf_vars == << pf_definition, pf_cohort, pf_result >>
tc_vars == << tc_nodes, tc_result >>
\* What no step of the executor or of a handler changes.
shared == << settings_vars, lock_vars, pf_vars, tc_vars >>
executor_locals == << request, cohort_info, projection, url >>
storage == << files, s3_objects, presigned >>
handler_vars == << handlers, next_id >>

\* ----------------------------------------------------------- file names
\* {root_directory}/results/{id}.tsv, .txt and .zip
output_path(id) == [dir |-> "results", id |-> id, ext |-> "tsv"]
output_metadata_path(id) == [dir |-> "results", id |-> id, ext |-> "txt"]
\* output_path.with_extension("").with_extension("zip")
output_zip_path(id) == [output_path(id) EXCEPT !.ext = "zip"]

\* format!("{}/{}.zip", settings.s3_result_path, request.id)
key(id) == [prefix |-> "s3_result_path", id |-> id, ext |-> "zip"]

\* The URI of the presigned GET request for a key.
presigned_uri(k) == [uri |-> "presigned", key |-> k]

\* ------------------------------------------------------- models.rs: types
WebGWASResultStatus == {"Queued", "Uploading", "Done", "Error"}

\* A WebGWASRequestId (request_time, which the executor never reads, is left out).
WebGWASRequestId(id, phenotype_definition, cohort_id) ==
    [id |-> id, phenotype_definition |-> phenotype_definition,
     cohort_id |-> cohort_id]

\* The WebGWASResult a handler registers for a new request.
QueuedResult(id) ==
    [request_id |-> id, status |-> "Queued", error_msg |-> None,
     url |-> None, local_result_file |-> None]

\* The mutexes of AppState.
Locks == {"queue", "cohort_id_to_data", "results"}

\* The number of handlers in the lock-level view.
MaxHandlers == 2

HandlerIds == 1..MaxHandlers

InitSettings ==
    /\ dry_run \in BOOLEAN
    /\ cohort_id_to_data = [cid \in CohortIds |-> CohortData(cid)]

\* All mutexes free, the executor at the top of its loop, no handler started.
InitLocks ==
    /\ lock_holder = [l \in Locks |-> None]
    /\ lpc = "loop"
    /\ hpc = [h \in HandlerIds |-> [at |-> "idle", todo |-> << >>, held |-> FALSE]]
    /\ lqueue = 0

\* compute_projection not called.
InitNoCall ==
    /\ pf_definition = None
    /\ pf_cohort = None
    /\ pf_result = None

\* The type check not called.
InitNoCheck ==
    /\ tc_nodes = << >>
    /\ tc_result = None

InitExecutor ==
    /\ queue = {}
    /\ results = << >>
    /\ handlers = {}
    /\ next_id = 0
    /\ pc = "poll"
    /\ request = None
    /\ cohort_info = None
    /\ projection = None
    /\ url = None
    /\ files = {}
    /\ s3_objects = {}
    /\ presigned = {}
    /\ started = << >>
    /\ returned = << >>

Init == InitSettings /\ InitExecutor /\ InitLocks /\ InitNoCall /\ InitNoCheck

\* ======================================================= HTTP handlers
\* post_igwas (not in src): validate, mint a fresh id, register a Queued
\* result and push the request.  The results lock and the queue lock are
\* taken one after the other, in an order the source does not show, so both
\* orders are modelled.  `handlers` holds the handlers that took one of
\* the two steps: [req, inserted, pushed].
NewRequests ==
    IF next_id < MaxRequests
    THEN { WebGWASRequestId(next_id + 1, d, c) :
               d \in Definitions, c \in DOMAIN cohort_id_to_data }
    ELSE {}

\* results.insert(id, WebGWASResult { status: Queued, .. })
post_igwas_insert ==
    /\ \/ \E r \in NewRequests :
             /\ results' = (r.id :> QueuedResult(r.id)) @@ results
             /\ handlers' = handlers \cup {[req |-> r, inserted |-> TRUE, pushed |-> FALSE]}
             /\ next_id' = next_id + 1
       \/ \E h \in handlers :
             /\ ~h.inserted
             /\ results' = (h.req.id :> QueuedResult(h.req.id)) @@ results
             /\ handlers' = handlers \ {h}
             /\ UNCHANGED next_id
    /\ UNCHANGED << shared, queue, pc, executor_locals, storage, started, returned >>

\* queue.push(request)
post_igwas_push ==
    /\ \/ \E r \in NewRequests :
             /\ queue' = queue \cup {r}
             /\ handlers' = handlers \cup {[req |-> r, inserted |-> FALSE, pushed |-> TRUE]}
             /\ next_id' = next_id + 1
       \/ \E h \in handlers :
             /\ ~h.pushed
             /\ queue' = queue \cup {h.req}
             /\ handlers' = handlers \ {h}
             /\ UNCHANGED next_id
    /\ UNCHANGED << shared, results, pc, executor_locals, storage, started, returned >>

\* ========================================================= worker_loop
\* The loop pops only at its top: handle_webgwas_request is an ordinary call
\* and has returned before the next iteration.
\* A variant that pops again while the kernel of the last request runs.
AtLoopTop_Overlapping == pc \in {"poll", "run_igwas"}

AtLoopTop == pc = "poll"

\* A variant that reads a request and leaves it in the queue.
worker_loop_pop_Peeks ==
    /\ AtLoopTop
    /\ \E r \in queue :
          /\ request' = Some(r)
          /\ started' = Append(started, r.id)
    /\ pc' = "load_cohort"
    /\ UNCHANGED << shared, queue, results, handler_vars, cohort_info, projection,
                    url, storage, returned >>

\* queue.pop() returned Some(request): call handle_webgwas_request.  The
\* container behind the queue is not in src, so pop may yield any element.
worker_loop_pop ==
    /\ AtLoopTop
    /\ \E r \in queue :
          /\ queue' = queue \ {r}
          /\ request' = Some(r)
          /\ started' = Append(started, r.id)
    /\ pc' = "load_cohort"
    /\ UNCHANGED << shared, results, handler_vars, cohort_info, projection,
                    url, storage, returned >>

\* A variant that leaves the loop when the queue is empty.
worker_loop_sleep_Exits ==
    /\ AtLoopTop
    /\ queue = {}
    /\ pc' = "exited"
    /\ UNCHANGED << shared, queue, results, handler_vars, executor_locals,
                    storage, started, returned >>

\* queue.pop() returned None: thread::sleep(10 ms).
worker_loop_sleep ==
    /\ AtLoopTop
    /\ queue = {}
    /\ pc' = "sleep"
    /\ UNCHANGED << shared, queue, results, handler_vars, executor_locals,
                    storage, started, returned >>

\* A variant of the loop that never wakes from its sleep.
worker_loop_wake_Never ==
    /\ pc = "sleep"
    /\ UNCHANGED vars

\* The sleep is over: next iteration.
worker_loop_wake ==
    /\ pc = "sleep"
    /\ pc' = "poll"
    /\ UNCHANGED << shared, queue, results, handler_vars, executor_locals,
                    storage, started, returned >>

\* handle_webgwas_request returns (Ok or Err) to worker_loop, which logs an
\* Err and loops.
Return(ok) ==
    /\ returned' = Append(returned, [id |-> unwrap(request).id, ok |-> ok])
    /\ pc' = "poll"
    /\ request' = None
    /\ cohort_info' = None
    /\ projection' = None
    /\ url' = None

\* ============================================== handle_webgwas_request
\* The writes to the request's WebGWASResult.
\* A slip: the status is set and the message is not.
SetError_NoMessage(result, err) ==
    [result EXCEPT !.status = "Error"]

SetError(result, err) ==
    [result EXCEPT !.status = "Error",
                   !.error_msg = Some([prefix |-> "Failed to compute projection: ",
                                       err |-> err])]

\* A slip: the status meant for the end of the pipeline.
SetUploading_AsDone(result, path) ==
    [result EXCEPT !.status = "Done", !.local_result_file = Some(path)]

SetUploading(result, path) ==
    [result EXCEPT !.status = "Uploading", !.local_result_file = Some(path)]

\* A slip: the url is stored but the status is left as it was.
SetDone_KeepsStatus(result, u) ==
    [result EXCEPT !.url = u]

\* A variant that clears the local path when the request is done.
SetDone_ClearsFile(result, u) ==
    [result EXCEPT !.status = "Done", !.url = u, !.local_result_file = None]

SetDone(result, u) ==
    [result EXCEPT !.status = "Done", !.url = u]

\* results.get_mut(&request.id) under the results lock, then write.
HasResult(id) == id \in DOMAIN results

\* 0. Load the cohort info.
load_cohort ==
    /\ pc = "load_cohort"
    /\ IF unwrap(request).cohort_id \in DOMAIN cohort_id_to_data
       THEN /\ cohort_info' = Some(cohort_id_to_data[unwrap(request).cohort_id])
            /\ pc' = "compute_projection"
            /\ UNCHANGED << request, projection, url, returned >>
       ELSE Return(FALSE)
    /\ UNCHANGED << shared, queue, results, handler_vars, storage, started >>

\* 1. compute_projection succeeded.
projection_ok ==
    /\ pc = "compute_projection"
    /\ LET r == compute_projection(unwrap(request).phenotype_definition,
                                   unwrap(cohort_info)) IN
          /\ r.ok
          /\ projection' = Some(r.value)
    /\ pc' = "run_igwas"
    /\ UNCHANGED << shared, queue, results, handler_vars, request, cohort_info,
                    url, storage, started, returned >>

\* A variant without the early return: the pipeline goes on after the error.
ReturnProjectionErr_FallsThrough ==
    /\ pc' = "run_igwas"
    /\ UNCHANGED << executor_locals, returned >>

\* return Err(err) of the projection's Err arm.
ReturnProjectionErr == Return(FALSE)

\* 1. compute_projection failed: record the error on the result and return.
projection_err ==
    /\ pc = "compute_projection"
    /\ LET r == compute_projection(unwrap(request).phenotype_definition,
                                   unwrap(cohort_info))
           id == unwrap(request).id
       IN /\ ~r.ok
          /\ IF HasResult(id)
             THEN results' = [results EXCEPT ![id] = SetError(@, r.err)]
             ELSE UNCHANGED results
    /\ ReturnProjectionErr
    /\ UNCHANGED << shared, queue, handler_vars, storage, started >>

\* 3. num_covar.expect("Num_covar is missing") panics while the arguments
\* of run_igwas_df_impl are evaluated: the kernel is not called, no lock is
\* held, and the executor thread unwinds out of worker_loop for good.
run_igwas_panic ==
    /\ pc = "run_igwas"
    /\ is_none(unwrap(cohort_info).cohort.num_covar)
    /\ pc' = "panicked"
    /\ UNCHANGED << shared, queue, results, handler_vars, executor_locals,
                    storage, started, returned >>

\* A variant with a default in place of expect(): the kernel is called also
\* when num_covar is None.
run_igwas_ok_Defaulted ==
    /\ pc = "run_igwas"
    /\ files' = files \cup {output_path(unwrap(request).id)}
    /\ pc' = "set_uploading"
    /\ UNCHANGED << shared, queue, results, handler_vars, executor_locals,
                    s3_objects, presigned, started, returned >>

\* 2., 3. The projection variance is computed, num_covar is there, and
\* run_igwas_df_impl wrote results/{id}.tsv.
run_igwas_ok ==
    /\ pc = "run_igwas"
    /\ is_some(unwrap(cohort_info).cohort.num_covar)
    /\ files' = files \cup {output_path(unwrap(request).id)}
    /\ pc' = "set_uploading"
    /\ UNCHANGED << shared, queue, results, handler_vars, executor_locals,
                    s3_objects, presigned, started, returned >>

\* 3. run_igwas_df_impl failed: the `?` returns its error.
run_igwas_err ==
    /\ pc = "run_igwas"
    /\ is_some(unwrap(cohort_info).cohort.num_covar)
    /\ Return(FALSE)
    /\ UNCHANGED << shared, queue, results, handler_vars, storage, started >>

\* A variant that creates the entry when the lookup finds none.
set_uploading_Upserts ==
    /\ pc = "set_uploading"
    /\ LET id == unwrap(request).id IN
          /\ results' = (id :> SetUploading(IF HasResult(id) THEN results[id]
                                                             ELSE QueuedResult(id),
                                            output_path(id))) @@ results
          /\ pc' = "create_metadata_file"
          /\ UNCHANGED << executor_locals, returned >>
    /\ UNCHANGED << shared, queue, handler_vars, storage, started >>

\* status = Uploading, local_result_file = Some(output_path).
set_uploading ==
    /\ pc = "set_uploading"
    /\ LET id == unwrap(request).id IN
          IF HasResult(id)
          THEN /\ results' = [results EXCEPT ![id] = SetUploading(@, output_path(id))]
               /\ pc' = "create_metadata_file"
               /\ UNCHANGED << executor_locals, returned >>
          ELSE /\ UNCHANGED results
               /\ Return(FALSE)
    /\ UNCHANGED << shared, queue, handler_vars, storage, started >>

\* create_metadata_file: look the cohort up again, create and write
\* results/{id}.txt.
create_metadata_file ==
    /\ pc = "create_metadata_file"
    /\ LET id == unwrap(request).id IN
          \/ /\ unwrap(request).cohort_id \in DOMAIN cohort_id_to_data
             /\ files' = files \cup {output_metadata_path(id)}
             /\ pc' = "create_output_zip"
             /\ UNCHANGED << executor_locals, returned >>
          \/ /\ \E created \in BOOLEAN :
                   files' = IF created /\ unwrap(request).cohort_id \in DOMAIN cohort_id_to_data
                            THEN files \cup {output_metadata_path(id)}
                            ELSE files
             /\ Return(FALSE)
    /\ UNCHANGED << shared, queue, results, handler_vars, s3_objects, presigned,
                    started >>

\* create_output_zip: results/{id}.zip holding results.tsv and metadata.txt.
create_output_zip ==
    /\ pc = "create_output_zip"
    /\ LET id == unwrap(request).id IN
          \/ /\ output_path(id) \in files
             /\ output_metadata_path(id) \in files
             /\ files' = files \cup {output_zip_path(id)}
             /\ pc' = "remove_metadata"
             /\ UNCHANGED << executor_locals, returned >>
          \/ /\ \E created \in BOOLEAN :
                   files' = IF created THEN files \cup {output_zip_path(id)}
                                       ELSE files
             /\ Return(FALSE)
    /\ UNCHANGED << shared, queue, results, handler_vars, s3_objects, presigned,
                    started >>

\* if state.settings.dry_run { None } else { upload ... }
\* A variant that ignores the setting.
SkipUpload_Never == FALSE

\* A variant that never uploads.
SkipUpload_Always == TRUE

SkipUpload == dry_run

\* std::fs::remove_file(metadata_file)?, then the dry-run branch.
remove_metadata ==
    /\ pc = "remove_metadata"
    /\ LET id == unwrap(request).id IN
          \/ /\ output_metadata_path(id) \in files
             /\ files' = files \ {output_metadata_path(id)}
             /\ pc' = IF SkipUpload THEN "set_done" ELSE "upload_object"
             /\ UNCHANGED << executor_locals, returned >>
          \/ /\ UNCHANGED files
             /\ Return(FALSE)
    /\ UNCHANGED << shared, queue, results, handler_vars, s3_objects, presigned,
                    started >>

\* upload_and_get_url: the runtime is built and upload_object puts the
\* archive under the key, or one of the two fails.
upload_object ==
    /\ pc = "upload_object"
    /\ LET id == unwrap(request).id IN
          \/ /\ output_zip_path(id) \in files
             /\ s3_objects' = s3_objects \cup {key(id)}
             /\ pc' = "presign"
             /\ UNCHANGED << executor_locals, returned >>
          \/ /\ UNCHANGED s3_objects
             /\ Return(FALSE)
    /\ UNCHANGED << shared, queue, results, handler_vars, files, presigned,
                    started >>

\* upload_and_get_url_async: the presigned GET URL of the key.
presign ==
    /\ pc = "presign"
    /\ LET id == unwrap(request).id IN
          \/ /\ presigned' = presigned \cup {key(id)}
             /\ url' = Some(presigned_uri(key(id)))
             /\ pc' = "remove_zip"
             /\ UNCHANGED << request, cohort_info, projection, returned >>
          \/ /\ UNCHANGED presigned
             /\ Return(FALSE)
    /\ UNCHANGED << shared, queue, results, handler_vars, files, s3_objects,
                    started >>

\* std::fs::remove_file(output_zip_path)?
\* A variant that leaves the archive behind.
RemoveZip_Keeps(fs, id) == fs

RemoveZip(fs, id) == fs \ {output_zip_path(id)}

remove_zip ==
    /\ pc = "remove_zip"
    /\ LET id == unwrap(request).id IN
          \/ /\ output_zip_path(id) \in files
             /\ files' = RemoveZip(files, id)
             /\ pc' = "set_done"
             /\ UNCHANGED << executor_locals, returned >>
          \/ /\ UNCHANGED files
             /\ Return(FALSE)
    /\ UNCHANGED << shared, queue, results, handler_vars, s3_objects, presigned,
                    started >>

\* status = Done, url = url; return Ok(()).
set_done ==
    /\ pc = "set_done"
    /\ LET id == unwrap(request).id IN
          IF HasResult(id)
          THEN /\ results' = [results EXCEPT ![id] = SetDone(@, url)]
               /\ Return(TRUE)
          ELSE /\ UNCHANGED results
               /\ Return(FALSE)
    /\ UNCHANGED << shared, queue, handler_vars, storage, started >>

\* ======================================================= specification
Handler == post_igwas_insert \/ post_igwas_push

Executor ==
    \/ worker_loop_pop \/ worker_loop_sleep \/ worker_loop_wake
    \/ load_cohort \/ projection_ok \/ projection_err
    \/ run_igwas_panic \/ run_igwas_ok \/ run_igwas_err
    \/ set_uploading \/ create_metadata_file \/ create_output_zip
    \/ remove_metadata \/ upload_object \/ presign \/ remove_zip \/ set_done

Next == Handler \/ Executor

Spec == Init /\ [][Next]_vars

\* The executor thread keeps running while it has a step to take, and a
\* handler that accepted a request finishes its two steps.
FairSpec ==
    /\ Spec
    /\ WF_vars(Executor)
    /\ WF_vars(post_igwas_insert)
    /\ WF_vars(post_igwas_push)

\* ======================================================== lock-level view
\* The same threads with every mutex acquisition and every guard drop a step
\* of its own. Which branch a step takes (entry found or not, Ok or Err) is
\* left open: it depends on data the locks do not.
ExecutorThread == [kind |-> "executor", n |-> 0]
HandlerThread(h) == [kind |-> "handler", n |-> h]
Threads == {ExecutorThread} \cup {HandlerThread(h) : h \in HandlerIds}

main_vars == << queue, results, pc, executor_locals, storage, started,
                returned, handler_vars >>

\* The mutexes whose guard thread t holds.
Held(t) == {l \in Locks : lock_holder[l] = Some(t)}

\* state.<l>.lock().unwrap(): blocks until the mutex is free.
AcquireGuard(l, t) ==
    /\ is_none(lock_holder[l])
    /\ lock_holder' = [lock_holder EXCEPT ![l] = Some(t)]

\* A guard kept past the end of its block.
DropGuard_Leaks(l, t) ==
    /\ lock_holder[l] = Some(t)
    /\ UNCHANGED lock_holder

\* The guard is a local of a block and is dropped where the block ends (also
\* on the early return of `?` inside it).
DropGuard(l, t) ==
    /\ lock_holder[l] = Some(t)
    /\ lock_holder' = [lock_holder EXCEPT ![l] = None]

\* The executor moves without touching a mutex.
ExecutorGoes(from, to) ==
    /\ lpc = from
    /\ lpc' \in to
    /\ UNCHANGED << lock_holder, hpc, lqueue, settings_vars, pf_vars, tc_vars, main_vars >>

\* The executor takes the guard of l.
ExecutorLocks(from, l, to) ==
    /\ lpc = from
    /\ AcquireGuard(l, ExecutorThread)
    /\ lpc' = to
    /\ UNCHANGED << hpc, lqueue, settings_vars, pf_vars, tc_vars, main_vars >>

\* The executor leaves the block that holds the guard of l.
ExecutorUnlocks(from, l, to) ==
    /\ lpc = from
    /\ DropGuard(l, ExecutorThread)
    /\ lpc' \in to
    /\ UNCHANGED << hpc, settings_vars, pf_vars, tc_vars, main_vars >>

\* worker_loop, line 30
lock_queue == ExecutorLocks("loop", "queue", "queue_locked")

\* worker_loop, lines 31-32: queue.pop() and the end of the block
unlock_queue ==
    /\ ExecutorUnlocks("queue_locked", "queue",
                       IF lqueue > 0 THEN {"cohort_lock"} ELSE {"sleep"})
    /\ lqueue' = IF lqueue > 0 THEN lqueue - 1 ELSE lqueue

\* worker_loop, line 42
sleep == ExecutorGoes("sleep", {"loop"})

\* handle_webgwas_request, lines 49-58
lock_cohort == ExecutorLocks("cohort_lock", "cohort_id_to_data", "cohort_locked")

unlock_cohort ==
    /\ ExecutorUnlocks("cohort_locked", "cohort_id_to_data",
                       {"compute_projection", "loop"})
    /\ UNCHANGED lqueue

\* line 61
projection_computed == ExecutorGoes("compute_projection", {"err_lock", "run_igwas"})

\* lines 64-72
lock_results_err == ExecutorLocks("err_lock", "results", "err_locked")

unlock_results_err ==
    /\ ExecutorUnlocks("err_locked", "results", {"loop"})
    /\ UNCHANGED lqueue

\* lines 76-92: the kernel returns Ok or Err, or expect() panics before it
igwas_run == ExecutorGoes("run_igwas", {"uploading_lock", "loop", "panicked"})

\* lines 94-101
lock_results_uploading == ExecutorLocks("uploading_lock", "results", "uploading_locked")

unlock_results_uploading ==
    /\ ExecutorUnlocks("uploading_locked", "results", {"metadata_lock", "loop"})
    /\ UNCHANGED lqueue

\* create_metadata_file, lines 221-230
lock_cohort_metadata ==
    ExecutorLocks("metadata_lock", "cohort_id_to_data", "metadata_locked")

unlock_cohort_metadata ==
    /\ ExecutorUnlocks("metadata_locked", "cohort_id_to_data",
                       {"metadata_write", "loop"})
    /\ UNCHANGED lqueue

\* create_metadata_file, lines 231-242
metadata_written == ExecutorGoes("metadata_write", {"create_output_zip", "loop"})

\* line 104
zip_created == ExecutorGoes("create_output_zip", {"remove_metadata", "loop"})

\* lines 105-107
metadata_removed ==
    ExecutorGoes("remove_metadata",
                 {IF dry_run THEN "done_lock" ELSE "upload", "loop"})

\* line 113
uploaded == ExecutorGoes("upload", {"remove_zip", "loop"})

\* line 114
zip_removed == ExecutorGoes("remove_zip", {"done_lock", "loop"})

\* lines 117-122
lock_results_done == ExecutorLocks("done_lock", "results", "done_locked")

unlock_results_done ==
    /\ ExecutorUnlocks("done_locked", "results", {"loop"})
    /\ UNCHANGED lqueue

\* The orders in which a handler takes the mutexes: the cohort table to
\* validate the request, then the results map and the queue, one at a time.
HandlerOrders ==
    { << "cohort_id_to_data", "results", "queue" >>,
      << "cohort_id_to_data", "queue", "results" >> }

handler_start(h) ==
    /\ hpc[h].at = "idle"
    /\ \E order \in HandlerOrders :
          hpc' = [hpc EXCEPT ![h] = [at |-> "running", todo |-> order, held |-> FALSE]]
    /\ UNCHANGED << lock_holder, lpc, lqueue, settings_vars, pf_vars, tc_vars, main_vars >>

handler_lock(h) ==
    /\ hpc[h].at = "running"
    /\ ~hpc[h].held
    /\ AcquireGuard(Head(hpc[h].todo), HandlerThread(h))
    /\ hpc' = [hpc EXCEPT ![h].held = TRUE]
    /\ UNCHANGED << lpc, lqueue, settings_vars, pf_vars, tc_vars, main_vars >>

handler_unlock(h) ==
    /\ hpc[h].at = "running"
    /\ hpc[h].held
    /\ DropGuard(Head(hpc[h].todo), HandlerThread(h))
    /\ lqueue' = IF Head(hpc[h].todo) = "queue" THEN lqueue + 1 ELSE lqueue
    /\ hpc' = [hpc EXCEPT ![h] =
                  [at |-> IF Len(hpc[h].todo) = 1 THEN "done" ELSE "running",
                   todo |-> Tail(hpc[h].todo), held |-> FALSE]]
    /\ UNCHANGED << lpc, settings_vars, pf_vars, tc_vars, main_vars >>

ExecutorLockSteps ==
    \/ lock_queue \/ unlock_queue \/ sleep
    \/ lock_cohort \/ unlock_cohort \/ projection_computed
    \/ lock_results_err \/ unlock_results_err \/ igwas_run
    \/ lock_results_uploading \/ unlock_results_uploading
    \/ lock_cohort_metadata \/ unlock_cohort_metadata
    \/ metadata_written \/ zip_created \/ metadata_removed
    \/ uploaded \/ zip_removed
    \/ lock_results_done \/ unlock_results_done

HandlerLockSteps ==
    \E h \in HandlerIds : handler_start(h) \/ handler_lock(h) \/ handler_unlock(h)

LockNext == ExecutorLockSteps \/ HandlerLockSteps

LockSpec == Init /\ [][LockNext]_vars

\* ==================================================== compute_projection
\* compute_projection as a function: the arguments are drawn at the start
\* and one step calls it.
MaxLen == 3

\* The nodes of the definitions passed: two features cohorts have, one no
\* cohort has, a constant, a binary and a unary operator.
PfNodes ==
    { Feature("A"), Feature("B"), Feature("Z"), Constant(2),
      OperatorNode("Add"), OperatorNode("Not") }

PfDefinitions == UNION { [1..n -> PfNodes] : n \in 0..MaxLen }

\* The feature orderings of the cohorts passed (the column names of a data
\* frame, so without repetition).
PfFeatureNames ==
    { << "A" >>, << "A", "B" >>, << "B", "A" >>, << "B", "C", "A" >> }

\* CohortData::load takes left_inverse as the file has it: features + 1 rows
\* for a consistent cohort directory, or not.
PfCohorts ==
    UNION { { [cohort |-> CohortData(1).cohort,
               feature_names |-> f,
               left_inverse_nrows |-> n] : n \in {Len(f), Len(f) + 1} }
            : f \in PfFeatureNames }

InitCall ==
    /\ pf_definition \in PfDefinitions
    /\ pf_cohort \in PfCohorts
    /\ pf_result = None

call_compute_projection ==
    /\ is_none(pf_result)
    /\ pf_result' = Some(compute_projection(pf_definition, pf_cohort))
    /\ UNCHANGED << pf_definition, pf_cohort, settings_vars, lock_vars, tc_vars,
                    main_vars >>

ProjectionInit ==
    InitSettings /\ InitExecutor /\ InitLocks /\ InitCall /\ InitNoCheck

ProjectionSpec == ProjectionInit /\ [][call_compute_projection]_vars

\* ============================================================ type check
\* The type check as a function: the node sequence is drawn at the start and
\* one step checks it.
MaxNodes == 3

\* The nodes of the sequences checked: a feature of each type (Any is what
\* From<ParsingNode> gives a feature), a constant, and every operator.
TcNodes ==
    { TypedFeature("A", t) : t \in NodeTypes }
       \cup { TypedConstant(2) }
       \cup { OperatorNode(op) : op \in OperatorTags }

InitCheck ==
    /\ tc_nodes \in UNION { [1..n -> TcNodes] : n \in 0..MaxNodes }
    /\ tc_result = None

call_type_check ==
    /\ is_none(tc_result)
    /\ tc_result' = Some(type_check(tc_nodes))
    /\ UNCHANGED << tc_nodes, settings_vars, lock_vars, pf_vars, main_vars >>

TypeCheckInit ==
    InitSettings /\ InitExecutor /\ InitLocks /\ InitNoCall /\ InitCheck

TypeCheckSpec == TypeCheckInit /\ [][call_type_check]_vars

\* ============================================================ properties
Status(i) == results[i].status

Last(seq) == seq[Len(seq)]

\* handle_webgwas_request returns in this step.
Returns == Len(returned') = Len(returned) + 1

\* C1: whenever handle_webgwas_request returns an error for a request whose
\* result entry exists, that entry's status is Error.
C1_ErrorReturnSetsError ==
    [][ (Returns /\ ~Last(returned').ok /\ HasResult(Last(returned').id))
            => results'[Last(returned').id].status = "Error" ]_vars

\* C2: every request the executor dequeues (its result entry registered, its
\* cohort's num_covar known, so that every pipeline step returns) eventually
\* has status Done or Error.
C2_DequeuedReachesDoneOrError ==
    \A i \in RequestIds :
       (/\ pc = "load_cohort"
        /\ unwrap(request).id = i
        /\ HasResult(i)
        /\ is_some(cohort_id_to_data[unwrap(request).cohort_id].cohort.num_covar))
       ~> (HasResult(i) /\ Status(i) \in {"Done", "Error"})

\* C3: a result entry's status only changes Queued -> Uploading,
\* Uploading -> Done, or into Error; entries are never removed.
C3_StatusOrder ==
    [][ \A i \in DOMAIN results :
           /\ i \in DOMAIN results'
           /\ \/ results'[i].status = results[i].status
              \/ results[i].status = "Queued" /\ results'[i].status = "Uploading"
              \/ results[i].status = "Uploading" /\ results'[i].status = "Done"
              \/ results[i].status # "Error" /\ results'[i].status = "Error" ]_vars

\* C3 witness: an entry went all the way to Done and another went to Error.
C3_Witness ==
    \E i, j \in DOMAIN results : Status(i) = "Done" /\ Status(j) = "Error"

\* C4: once an entry's status is Error, no step changes the entry.
C4_ErrorTerminal ==
    [][ \A i \in DOMAIN results :
           results[i].status = "Error"
               => (i \in DOMAIN results' /\ results'[i] = results[i]) ]_vars

\* C4 witness: an entry is Error and the executor has since handled another
\* request.
C4_Witness ==
    \E k \in 1..Len(returned) :
       /\ k < Len(returned)
       /\ HasResult(returned[k].id)
       /\ Status(returned[k].id) = "Error"

\* C5: every request in the queue is eventually dequeued.
C5_EnqueuedIsDequeued ==
    \A i \in RequestIds :
       (\E r \in queue : r.id = i) ~> Contains(started, i)

\* C6: at most one pipeline is in progress, a pipeline has returned before
\* the next pop, and pipelines return in the order of the pops.
C6_Sequential ==
    /\ Len(returned) <= Len(started)
    /\ Len(started) <= Len(returned) + 1
    /\ \A k \in 1..Len(returned) : returned[k].id = started[k]
    /\ (Len(started) = Len(returned) + 1) <=> is_some(request)
    /\ is_some(request) => unwrap(request).id = Last(started)

\* C6 witness: two pipelines have run, one after the other.
C6_Witness == Len(returned) >= 2

\* C7: url is set only on Done entries, and without dry_run every Done entry
\* has its url.
C7_UrlOnlyWhenDone ==
    \A i \in DOMAIN results :
       /\ is_some(results[i].url) => Status(i) = "Done"
       /\ (~dry_run /\ Status(i) = "Done") => is_some(results[i].url)

C7_Witness ==
    ~dry_run /\ \E i \in DOMAIN results : Status(i) = "Done" /\ is_some(results[i].url)

\* C8 as stated: once Done without dry_run, results/{id}.zip and
\* results/{id}.tsv are both deleted.
C8_ArchiveAndTsvDeleted ==
    \A i \in DOMAIN results :
       (~dry_run /\ Status(i) = "Done")
           => (output_zip_path(i) \notin files /\ output_path(i) \notin files)

\* C8 amended: once Done without dry_run, results/{id}.zip and the metadata
\* file results/{id}.txt are deleted and results/{id}.tsv is kept.
C8_ArchiveAndMetadataDeleted ==
    \A i \in DOMAIN results :
       (~dry_run /\ Status(i) = "Done")
           => /\ output_zip_path(i) \notin files
              /\ output_metadata_path(i) \notin files
              /\ output_path(i) \in files

C8_Witness ==
    ~dry_run /\ \E i \in DOMAIN results : Status(i) = "Done" /\ output_path(i) \in files

\* C9 as stated: a Done entry's local_result_file is unset.
C9_LocalFileCleared ==
    \A i \in DOMAIN results :
       Status(i) = "Done" => is_none(results[i].local_result_file)

\* C9 amended: a Done entry's local_result_file is still set, to
\* results/{id}.tsv.
C9_LocalFileKept ==
    \A i \in DOMAIN results :
       Status(i) = "Done" => results[i].local_result_file = Some(output_path(i))

C9_Witness ==
    \E i \in DOMAIN results :
       Status(i) = "Done" /\ is_some(results[i].local_result_file) /\ pc = "poll"

\* C10: in dry-run mode nothing is uploaded or presigned, the executor never
\* enters the upload steps, and a request whose pipeline returned Ok is Done
\* with its url unset.
C10_DryRunSkipsUpload ==
    dry_run =>
       /\ s3_objects = {}
       /\ presigned = {}
       /\ pc \notin {"upload_object", "presign", "remove_zip"}
       /\ \A i \in DOMAIN results : is_none(results[i].url)
       /\ \A k \in 1..Len(returned) :
             returned[k].ok => (HasResult(returned[k].id)
                                /\ Status(returned[k].id) = "Done")

C10_Witness ==
    dry_run /\ \E k \in 1..Len(returned) :
                  returned[k].ok /\ Status(returned[k].id) = "Done"

\* The positions where the executor runs the projection, the kernel, the
\* packaging (metadata file, archive, removals) or the upload.
ComputeOrIo ==
    {"compute_projection", "run_igwas", "metadata_write", "create_output_zip",
     "remove_metadata", "upload", "remove_zip"}

\* The next step of the thread that holds a guard: dropping it.
Releases(t) ==
    IF t = ExecutorThread
    THEN \/ unlock_queue \/ unlock_cohort \/ unlock_results_err
         \/ unlock_results_uploading \/ unlock_cohort_metadata
         \/ unlock_results_done
    ELSE handler_unlock(t.n)

\* C11: the executor holds no mutex while it runs the projection, the kernel,
\* the packaging or the upload; no thread holds two mutexes at once; the
\* executor holds the queue's mutex only between lock() and the end of the pop
\* block, so a handler's push never waits for a pipeline; and whoever holds a
\* mutex can always take the step that drops it, so no deadlock is reachable.
C11_NoLockAcrossWork ==
    /\ lpc \in ComputeOrIo \cup {"sleep", "panicked"} => Held(ExecutorThread) = {}
    /\ \A t \in Threads : Cardinality(Held(t)) <= 1
    /\ lock_holder["queue"] = Some(ExecutorThread) => lpc = "queue_locked"
    /\ \A l \in Locks :
          is_some(lock_holder[l]) => ENABLED Releases(unwrap(lock_holder[l]))
    /\ (ENABLED LockNext)
          \/ (lpc = "panicked" /\ \A h \in HandlerIds : hpc[h].at = "done")

\* C11 witness: while the executor is uploading, one handler holds the queue's
\* mutex to push and another holds the results map's.
C11_Witness ==
    /\ lpc = "upload"
    /\ \E h1, h2 \in HandlerIds :
          /\ lock_holder["queue"] = Some(HandlerThread(h1))
          /\ lock_holder["results"] = Some(HandlerThread(h2))

\* The handlers have pushed request i: it is in the queue or was popped.
Enqueued(i) ==
    \/ \E r \in queue : r.id = i
    \/ \E k \in 1..Len(started) : started[k] = i

\* A step of the pipeline of request i failed, or the executor thread died.
PipelineFailed(i) ==
    \/ pc = "panicked"
    \/ \E k \in 1..Len(returned) : returned[k] = [id |-> i, ok |-> FALSE]

\* C12: once two requests are both enqueued, in whatever order the handlers'
\* steps and the executor's polls interleave, either a pipeline step of one of
\* them fails or both result entries reach Done.
C12_BothReachDone ==
    \A i, j \in RequestIds :
       (i < j /\ Enqueued(i) /\ Enqueued(j))
       ~> \/ PipelineFailed(i) \/ PipelineFailed(j)
          \/ (HasResult(i) /\ HasResult(j) /\ Status(i) = "Done" /\ Status(j) = "Done")

\* C12 witness: two requests were uploaded and are both Done, the later one
\* dequeued first, with different URLs.
C12_Witness ==
    /\ ~dry_run
    /\ Len(started) >= 2 /\ started[1] = 2 /\ started[2] = 1
    /\ HasResult(1) /\ HasResult(2)
    /\ Status(1) = "Done" /\ Status(2) = "Done"
    /\ results[1].url # results[2].url
    /\ ~PipelineFailed(1) /\ ~PipelineFailed(2)

\* compute_projection was called with a single Feature node that names a
\* feature of the cohort, and has returned.
SingleKnownFeature ==
    /\ is_some(pf_result)
    /\ Len(pf_definition) = 1
    /\ pf_definition[1].kind = "Feature"
    /\ Contains(pf_cohort.feature_names, pf_definition[1].code)

\* C13: for a definition that is a single Feature node naming feature i of
\* the cohort, compute_projection returns Ok whatever left_inverse is, and
\* the coefficients over the cohort's feature ordering are 1 at i and 0
\* elsewhere, none of them a value of the least-squares solve.
C13_SingleFeatureBasisVector ==
    SingleKnownFeature =>
       LET names == pf_cohort.feature_names
           i == IndexOf(names, pf_definition[1].code)
           result == unwrap(pf_result)
       IN  /\ result.ok
           /\ result.value.feature_coefficient =
                 [k \in 1..Len(names) |-> IF k = i THEN "1.0" ELSE "0.0"]

\* C13 witness: the single feature is the third of three, and left_inverse
\* does not have the rows the least-squares path needs.
C13_Witness ==
    /\ SingleKnownFeature
    /\ IndexOf(pf_cohort.feature_names, pf_definition[1].code) = 3
    /\ pf_cohort.left_inverse_nrows = Len(pf_cohort.feature_names)
    /\ unwrap(pf_result).ok

\* C14: whenever compute_projection returns Ok, on either path, feature_id
\* is the cohort's feature_names in order and there are as many coefficients
\* as feature ids.
C14_StandardizedShape ==
    (is_some(pf_result) /\ unwrap(pf_result).ok) =>
       LET returned_projection == unwrap(pf_result).value IN
       /\ returned_projection.feature_id = pf_cohort.feature_names
       /\ Len(returned_projection.feature_coefficient)
             = Len(returned_projection.feature_id)

\* C14 witness: the least-squares path returned Ok for a cohort of three
\* features: three coefficients, the intercept dropped.
C14_Witness ==
    /\ is_some(pf_result) /\ unwrap(pf_result).ok
    /\ Len(pf_definition) = 3
    /\ Len(pf_cohort.feature_names) = 3
    /\ unwrap(pf_result).value.feature_coefficient = << "lsq", "lsq", "lsq" >>

\* C15: an entry is Uploading or Done only with the request's TSV written
\* (and recorded as local_result_file); with dry_run false it is Done only
\* with the archive uploaded under {s3_result_path}/{id}.zip, that key
\* presigned, and the presigned URL of that key stored as the entry's url.
C15_StatusAfterWork ==
    \A i \in DOMAIN results :
       /\ Status(i) \in {"Uploading", "Done"} =>
             /\ output_path(i) \in files
             /\ results[i].local_result_file = Some(output_path(i))
       /\ (Status(i) = "Done" /\ ~dry_run) =>
             /\ key(i) \in s3_objects
             /\ key(i) \in presigned
             /\ results[i].url = Some(presigned_uri(key(i)))

\* C15 witness: with dry_run false one entry is Done with its URL and the
\* other is Uploading, its archive not uploaded yet.
C15_Witness ==
    /\ ~dry_run
    /\ \E i, j \in DOMAIN results :
          /\ Status(i) = "Done"
          /\ results[i].url = Some(presigned_uri(key(i)))
          /\ Status(j) = "Uploading"
          /\ key(j) \notin s3_objects

\* C16: error_msg is set exactly on the entries whose status is Error.
C16_ErrorMsgIffError ==
    \A i \in DOMAIN results :
       is_some(results[i].error_msg) <=> Status(i) = "Error"

\* C16 witness: one entry is Error with its message, another is Done with
\* none.
C16_Witness ==
    \E i, j \in DOMAIN results :
       /\ Status(i) = "Error" /\ is_some(results[i].error_msg)
       /\ Status(j) = "Done" /\ is_none(results[j].error_msg)

\* The request at the projection step has a definition of one node that is
\* an Operator, a Constant, or a Feature the cohort does not have.
UnsupportedSingleNode ==
    /\ pc = "compute_projection"
    /\ LET d == unwrap(request).phenotype_definition IN
          /\ Len(d) = 1
          /\ \/ d[1].kind \in {"Operator", "Constant"}
             \/ /\ d[1].kind = "Feature"
                /\ ~Contains(unwrap(cohort_info).feature_names, d[1].code)

\* C17: for such a request the projection step returns Err to the loop: the
\* kernel step is not entered, no file is written, results/{id}.tsv does not
\* exist, and the request's entry (when the handler has inserted it) becomes
\* Error with a message that starts with "Failed to compute projection"; an
\* Error entry never has a result file.
C17_BadSingleNodeFails ==
    [][ /\ (UnsupportedSingleNode /\ pc' # pc) =>
             LET id == unwrap(request).id IN
             /\ pc' = "poll"
             /\ Last(returned') = [id |-> id, ok |-> FALSE]
             /\ files' = files
             /\ output_path(id) \notin files'
             /\ HasResult(id) =>
                   /\ results'[id].status = "Error"
                   /\ is_some(results'[id].error_msg)
                   /\ unwrap(results'[id].error_msg).prefix
                         = "Failed to compute projection: "
        /\ \A i \in DOMAIN results' :
              results'[i].status = "Error" => output_path(i) \notin files'
      ]_vars

\* C17 witness: a request whose single Feature node the cohort does not have
\* was handled: its entry is Error, the call returned Err, no file exists.
C17_Witness ==
    /\ \E i \in DOMAIN results :
          /\ Status(i) = "Error"
          /\ unwrap(results[i].error_msg).err = "Feature not found after standardization"
    /\ \E k \in 1..Len(returned) : ~returned[k].ok
    /\ files = {}

\* A step of the executor: the handlers' bookkeeping is untouched and the
\* executor's position changes.
ExecutorStep == pc' # pc /\ UNCHANGED handler_vars

\* C18: a pop removes exactly the request it returns from the queue; no
\* step of the executor adds to the queue; the executor never starts an id
\* twice, and never works again on a request whose call has returned.
C18_HandledAtMostOnce ==
    [][ /\ Len(started') = Len(started) + 1 =>
             \E r \in queue :
                /\ r.id = Last(started')
                /\ request' = Some(r)
                /\ queue' = queue \ {r}
                /\ Cardinality(queue') = Cardinality(queue) - 1
        /\ ExecutorStep => queue' \subseteq queue
        /\ \A k, l \in 1..Len(started') : k # l => started'[k] # started'[l]
        /\ \A k \in 1..Len(returned') :
              is_some(request') => unwrap(request').id # returned'[k].id
      ]_vars

\* C18 witness: two requests were each started once, the first one failed,
\* the queue is empty and the executor sleeps between polls.
C18_Witness ==
    /\ Len(started) = 2 /\ Len(returned) = 2
    /\ ~returned[1].ok /\ returned[2].ok
    /\ queue = {}
    /\ pc = "sleep"

\* The positions of the three blocks that write to results.
WritesResults == {"compute_projection", "set_uploading", "set_done"}

\* C19: a step of the executor leaves the keys of results as they are and
\* changes at most the entry of the current request, and only at one of the
\* three writing blocks; when the lookup there finds no entry the call
\* returns Err and results is unchanged.
C19_WritesOnlyOwnEntry ==
    [][ ExecutorStep =>
          /\ DOMAIN results' = DOMAIN results
          /\ \A i \in DOMAIN results :
                results'[i] # results[i] =>
                   /\ is_some(request) /\ i = unwrap(request).id
                   /\ pc \in WritesResults
          /\ (pc \in {"set_uploading", "set_done"} /\ ~HasResult(unwrap(request).id)) =>
                /\ results' = results
                /\ Returns
                /\ Last(returned') = [id |-> unwrap(request).id, ok |-> FALSE]
          /\ (pc = "compute_projection" /\ ~HasResult(unwrap(request).id)) =>
                /\ results' = results
                /\ Returns => Last(returned') = [id |-> unwrap(request).id, ok |-> FALSE]
      ]_vars

\* C19 witness: a request was popped before its handler inserted the entry;
\* the kernel wrote its TSV, the lookup found nothing, the call returned Err
\* and there is still no entry, while the other request's entry is Done.
C19_Witness ==
    \E k \in 1..Len(returned) :
       /\ ~returned[k].ok
       /\ ~HasResult(returned[k].id)
       /\ output_path(returned[k].id) \in files
       /\ \E j \in DOMAIN results : Status(j) = "Done"

\* The positions after run_igwas_df_impl returned Ok.
AfterKernel ==
    {"set_uploading", "create_metadata_file", "create_output_zip",
     "remove_metadata", "upload_object", "presign", "remove_zip", "set_done"}

\* C20: the step that calls run_igwas_df_impl (it returns Ok or Err) is taken
\* only with num_covar of the request's cohort known, and so is every later
\* step of that pipeline; a request of a cohort whose num_covar is None does
\* not get past the evaluation of the call's arguments.
C20_KernelNeedsNumCovar ==
    [][ /\ (pc = "run_igwas" /\ pc' \in {"set_uploading", "poll"}) =>
             is_some(unwrap(cohort_info).cohort.num_covar)
        /\ pc' \in AfterKernel =>
             is_some(unwrap(cohort_info').cohort.num_covar)
        /\ (pc = "run_igwas" /\ is_none(unwrap(cohort_info).cohort.num_covar)) =>
             /\ files' = files
             /\ pc' \in {"run_igwas", "panicked"}
      ]_vars

\* C20 witness: the kernel ran for a request of the cohort with num_covar,
\* and a request of the cohort without it stopped at expect().
C20_Witness ==
    /\ pc = "panicked"
    /\ is_none(unwrap(cohort_info).cohort.num_covar)
    /\ \E k \in 1..Len(returned) : output_path(returned[k].id) \in files
    /\ output_path(unwrap(request).id) \notin files

\* What an iteration that pops nothing has to leave alone: the queue, the
\* results map, the cohort table and the settings, the local files and the
\* object storage, and the executor's record of what it handled.
EmptyPollFrame ==
    UNCHANGED << queue, results, settings_vars, storage, executor_locals,
                 started, returned >>

\* C21: when the executor polls an empty queue its step goes to the sleep
\* and changes nothing else; from the sleep the step back to the poll is
\* always possible, is the executor's only step, and changes nothing else
\* either.
C21_EmptyPollChangesNothing ==
    [][ /\ (pc = "poll" /\ queue = {} /\ ExecutorStep) =>
             pc' = "sleep" /\ EmptyPollFrame
        /\ pc = "sleep" =>
             /\ ENABLED worker_loop_wake
             /\ ExecutorStep => pc' = "poll" /\ EmptyPollFrame
      ]_vars

\* C21 witness: the executor sleeps after an empty poll with an entry in
\* results and a file on disk, both left by an earlier request.
C21_Witness ==
    /\ pc = "sleep"
    /\ queue = {}
    /\ \E i \in DOMAIN results : Status(i) = "Done" /\ output_path(i) \in files

\* The operator nodes of a sequence, in order.
OperatorsOf(nodes) == SelectSeq(nodes, LAMBDA n : n.kind = "Operator")

\* The table as the claim states it.
StatedArity(op) == IF op \in {"Root", "Not"} THEN 1 ELSE 2
StatedInputType(op) == IF op \in {"And", "Or", "Not"} THEN "Bool" ELSE "Any"

\* C22: with the table of Operators::value, a sequence the type check accepts
\* had every one of its operators applied, each to as many operands as the
\* stated arity (1 for Root and Not, 2 otherwise), each operand's type
\* unifying with the stated input type (Bool for And, Or, Not; Any
\* otherwise); no And, Or or Not was applied to a Real operand, and every
\* comparison of two Real operands produced Bool.
C22_TypeCheckFollowsTable ==
    (is_some(tc_result) /\ unwrap(tc_result).ok) =>
       LET applied == unwrap(tc_result).value.applied
           operators == OperatorsOf(tc_nodes)
       IN  /\ Len(applied) = Len(operators)
           /\ \A j \in 1..Len(applied) :
                 LET a == applied[j] IN
                 /\ a.op = operators[j].op
                 /\ Len(a.operands) = StatedArity(a.op)
                 /\ \A m \in 1..Len(a.operands) :
                       \/ StatedInputType(a.op) = "Any"
                       \/ a.operands[m] \in {StatedInputType(a.op), "Any"}
                 /\ a.op \in {"And", "Or", "Not"} =>
                       \A m \in 1..Len(a.operands) : a.operands[m] # "Real"
                 /\ (a.op \in {"Gt", "Ge", "Lt", "Le", "Eq"}
                        /\ a.operands = << "Real", "Real" >>) =>
                       a.output = "Bool"

\* C22 witness: a Real feature compared with a constant is accepted as Bool.
C22_Witness ==
    /\ is_some(tc_result) /\ unwrap(tc_result).ok
    /\ tc_nodes = << TypedFeature("A", "Real"), TypedConstant(2), OperatorNode("Gt") >>
    /\ unwrap(tc_result).value.node_type = "Bool"
    /\ unwrap(tc_result).value.applied
          = << [op |-> "Gt", operands |-> << "Real", "Real" >>, output |-> "Bool"] >>

=============================================================================
